---- MODULE Spec2Model ----
(***************************************************************************)
(* Model of src/pages/canvas-board/CanvasBoard.tsx: a canvas that draws a  *)
(* one-level tree and is panned (drag, shift+wheel), zoomed (wheel) and    *)
(* resized.                                                                *)
(*                                                                         *)
(* Units.  scale is kept in thousandths (scale = 1 is 1000), so that the   *)
(* zoom step deltaY * 0.001 is the integer deltaY.  Logical coordinates of *)
(* the layout are kept doubled (field names end in 2), so that             *)
(* size.width / 2 is exact for odd widths too.  offset, pointer positions  *)
(* and sizes are in CSS pixels.                                            *)
(*                                                                         *)
(* Scheduling.  The host delivers events one at a time and React commits   *)
(* the state update an event handler made, and runs the effects of that    *)
(* commit, before the next event is handled; one action is therefore one   *)
(* event: the handler, the re-render and the draw effect.                  *)
(***************************************************************************)
EXTENDS Integers, Sequences, FiniteSets

(* ---------- bounds of the model ---------- *)
MaxOff == 1          \* |offset.x|, |offset.y| <= MaxOff
MaxLen == 4          \* entity lists of LayoutSpec have 0..MaxLen entities

Points == [x : {0, 1}, y : {0, 1}]             \* clientX, clientY of a mouse event
ZoomDeltaYs == {-3000, 0, 3000}               \* deltaY of a plain wheel event
PanDeltaYs == {-1, 0, 1}                \* deltaY of a shift+wheel event
Widths == {1000, 1001}                         \* window.innerWidth
Heights == {600, 700}                          \* window.innerHeight
Dprs == {2}                                    \* window.devicePixelRatio
Sizes == [width : Widths, height : Heights]

(* ---------- entities ---------- *)
NoParent == "undefined"      \* the value of an absent parentId
Ids == {"1", "2"}
ParentIds == {NoParent, "", "1", "2"}
Entities == [id : Ids, name : {"n"}, parentId : ParentIds]

USERS ==
  << [id |-> "1", name |-> "Parent", parentId |-> NoParent],
     [id |-> "2", name |-> "Child 1", parentId |-> "1"],
     [id |-> "3", name |-> "Child 2", parentId |-> "1"],
     [id |-> "4", name |-> "Child 3", parentId |-> "1"] >>

NODE_WIDTH == 160
NODE_HEIGHT == 70
VERTICAL_GAP == 120
HORIZONTAL_GAP == 220
parentY == 100
MinScale == 250
MaxScale == 4000

VARIABLES
  users,        \* the entity list drawTree reads (USERS)
  scale,        \* useState(1), in thousandths
  offset,       \* useState({x: 0, y: 0})
  size,         \* useState({width, height})
  isDragging,   \* isDraggingRef.current
  lastPos,      \* lastPosRef.current
  dpr,          \* window.devicePixelRatio
  cursor,       \* style.cursor of the canvas, as the last render set it
  frame,        \* what the last draw() put on the canvas
  redraws,      \* number of draw() calls made while handling the last event
  ev,           \* history: the last event handled ("mount" at first)
  seen,         \* history: every (width, nodes, edges) a draw has produced
  dragClean,    \* history: a press happened and only moves, plain wheels and
                \*   resizes (then at most the release) have followed it
  dragBase,     \* history: offset at that press minus the press position
  dragMoves,    \* history: number of moves since that press, counted to 2
  dragLast,     \* history: pointer position of that press or of the last move
  trackWheel,   \* history: whether a shift+wheel is followed as part of a drag
                \*   (WheelDragSpec) or ends the history of the drag (Spec)
  dragPan       \* history: sum of the shift+wheel deltaY since that press

vars == << users, scale, offset, size, isDragging, lastPos, dpr, cursor, frame,
           redraws, ev, seen, dragClean, dragBase, dragMoves, dragLast,
           trackWheel, dragPan >>

Min(a, b) == IF a < b THEN a ELSE b
Max(a, b) == IF a > b THEN a ELSE b

(* ---------- tree layout ---------- *)
\* !u.parentId : an absent and an empty parentId are both falsy
NoParentId(u) == u.parentId = NoParent \/ u.parentId = ""

\* faulty variant: the first entity stands in when none is rootless
FindParentOrFirst(us) ==
  IF \E i \in 1..Len(us) : NoParentId(us[i])
  THEN CHOOSE i \in 1..Len(us) :
         /\ NoParentId(us[i])
         /\ \A j \in 1..(i - 1) : ~NoParentId(us[j])
  ELSE Min(1, Len(us))

\* USERS.find(u => !u.parentId) : index of the first match, 0 for undefined
FindParent(us) ==
  IF \E i \in 1..Len(us) : NoParentId(us[i])
  THEN CHOOSE i \in 1..Len(us) :
         /\ NoParentId(us[i])
         /\ \A j \in 1..(i - 1) : ~NoParentId(us[j])
  ELSE 0

\* faulty variant: every entity that has a parentId is taken for a child
ChildrenOfAnyParent(us, parent) ==
  SelectSeq(us, LAMBDA u : ~NoParentId(u))

\* USERS.filter(u => u.parentId === parent.id)
ChildrenOf(us, parent) ==
  SelectSeq(us, LAMBDA u : u.parentId = parent.id)

\* faulty variant: the node width is not taken off
CenterX2NotCentered(width) == width

\* centerX = size.width / 2 - NODE_WIDTH / 2, doubled
CenterX2(width) == width - NODE_WIDTH

\* faulty variant: children.length instead of children.length - 1
StartX2OffByOne(width, n) == width - NODE_WIDTH - n * HORIZONTAL_GAP

\* startX = centerX - ((children.length - 1) * HORIZONTAL_GAP) / 2, doubled
StartX2(width, n) == CenterX2(width) - (n - 1) * HORIZONTAL_GAP

\* x = startX + index * HORIZONTAL_GAP (index from 0), doubled
ChildX2(width, n, index) == StartX2(width, n) + 2 * index * HORIZONTAL_GAP

\* y = parentY + VERTICAL_GAP, doubled
ChildY2 == 2 * (parentY + VERTICAL_GAP)

\* drawUser(ctx, user, x, y) : fillRect(x, y, NODE_WIDTH, NODE_HEIGHT) and label
DrawUser(user, x2, y2) ==
  [id |-> user.id, name |-> user.name, x2 |-> x2, y2 |-> y2,
   w |-> NODE_WIDTH, h |-> NODE_HEIGHT]

\* drawLine(ctx, x1, y1, x2, y2), doubled
DrawLine(ax2, ay2, bx2, by2) ==
  [x1_2 |-> ax2, y1_2 |-> ay2, x2_2 |-> bx2, y2_2 |-> by2]

\* faulty variant: the edge leaves the parent at its top, not its bottom
ChildEdgeFromTop(width, n, index) ==
  DrawLine(width, 2 * parentY, ChildX2(width, n, index) + NODE_WIDTH, ChildY2)

\* the drawLine call of the child at index (from 0): from the parent's
\* (centerX + NODE_WIDTH / 2, parentY + NODE_HEIGHT) to the child's
\* (x + NODE_WIDTH / 2, y), doubled
ChildEdge(width, n, index) ==
  DrawLine(CenterX2(width) + NODE_WIDTH,
           2 * (parentY + NODE_HEIGHT),
           ChildX2(width, n, index) + NODE_WIDTH,
           ChildY2)

\* drawTree : the nodes (root first, then the children) and the edges it draws
DrawTree(us, width) ==
  LET p == FindParent(us) IN
  IF p = 0 THEN [nodes |-> << >>, edges |-> << >>]
  ELSE
    LET parent == us[p]
        children == ChildrenOf(us, parent)
        n == Len(children)
    IN [nodes |->
          << DrawUser(parent, CenterX2(width), 2 * parentY) >> \o
          [i \in 1..n |-> DrawUser(children[i], ChildX2(width, n, i - 1), ChildY2)],
        edges |->
          [i \in 1..n |-> ChildEdge(width, n, i - 1)]]

(* ---------- draw ---------- *)
\* faulty variant: the tree is centred on the panned surface
DrawPanned(sc, off, sz, d, us) ==
  LET tree == DrawTree(us, sz.width + 2 * off.x) IN
  [canvasW |-> sz.width * d, canvasH |-> sz.height * d,
   cssW |-> sz.width, cssH |-> sz.height,
   d |-> d, tx |-> off.x, ty |-> off.y, k |-> sc,
   clear |-> [x |-> 0 - off.x, y |-> 0 - off.y, w |-> sz.width, h |-> sz.height],
   nodes |-> tree.nodes, edges |-> tree.edges]

\* faulty variant: scale(scale, scale) comes before translate(offset), so that
\* the translation is scaled too
DrawScaledFirst(sc, off, sz, d, us) ==
  LET tree == DrawTree(us, sz.width) IN
  [canvasW |-> sz.width * d, canvasH |-> sz.height * d,
   cssW |-> sz.width, cssH |-> sz.height,
   d |-> d, tx |-> (off.x * sc) \div 1000, ty |-> (off.y * sc) \div 1000, k |-> sc,
   clear |-> [x |-> 0 - off.x, y |-> 0 - off.y, w |-> sz.width, h |-> sz.height],
   nodes |-> tree.nodes, edges |-> tree.edges]

\* draw() : canvas size, transform (device = d * (t + k * p)), clearRect, drawTree
Draw(sc, off, sz, d, us) ==
  LET tree == DrawTree(us, sz.width) IN
  [canvasW |-> sz.width * d, canvasH |-> sz.height * d,
   cssW |-> sz.width, cssH |-> sz.height,
   d |-> d, tx |-> off.x, ty |-> off.y, k |-> sc,
   clear |-> [x |-> 0 - off.x, y |-> 0 - off.y, w |-> sz.width, h |-> sz.height],
   nodes |-> tree.nodes, edges |-> tree.edges]

\* faulty variant: draw reads the size of the render before (a stale closure)
DrawEffectStale(depsChanged) ==
  IF depsChanged
  THEN /\ frame' = Draw(scale', offset', size, dpr', users')
       /\ redraws' = 1
       /\ seen' = seen \cup {[width |-> size.width,
                              nodes |-> frame'.nodes, edges |-> frame'.edges]}
  ELSE /\ redraws' = 0
       /\ UNCHANGED << frame, seen >>

\* faulty variant: size is missing from the dependencies of the effect
DrawEffectNoSizeDep(depsChanged) ==
  IF depsChanged /\ size' = size
  THEN /\ frame' = Draw(scale', offset', size', dpr', users')
       /\ redraws' = 1
       /\ seen' = seen \cup {[width |-> size'.width,
                              nodes |-> frame'.nodes, edges |-> frame'.edges]}
  ELSE /\ redraws' = 0
       /\ UNCHANGED << frame, seen >>

\* useEffect(() => { draw(); }, [scale, offset, size]) after the commit of an
\* event: draw runs iff one of the dependencies is a new value (Object.is)
DrawEffect(depsChanged) ==
  IF depsChanged
  THEN /\ frame' = Draw(scale', offset', size', dpr', users')
       /\ redraws' = 1
       /\ seen' = seen \cup {[width |-> size'.width,
                              nodes |-> frame'.nodes, edges |-> frame'.edges]}
  ELSE /\ redraws' = 0
       /\ UNCHANGED << frame, seen >>

\* cursor: isDraggingRef.current ? "grabbing" : "grab", evaluated by a render
CursorStyle(dragging) == IF dragging THEN "grabbing" ELSE "grab"

\* the commit that follows an event: the component renders again iff the
\* handler set a state to a new value (a ref write causes no render), and the
\* draw effect runs iff one of its dependencies is new; the three states are
\* the three dependencies
Commit(stateChanged) ==
  /\ cursor' = IF stateChanged THEN CursorStyle(isDragging') ELSE cursor
  /\ DrawEffect(stateChanged)

InRange(off) ==
  /\ off.x \in (0 - MaxOff)..MaxOff
  /\ off.y \in (0 - MaxOff)..MaxOff

(* ---------- interactions ---------- *)
\* faulty variant: the wheel delta is added
PanByAdded(prev, deltaY) == [x |-> prev.x + deltaY, y |-> prev.y]

\* prev => ({ x: prev.x - e.deltaY, y: prev.y })
PanBy(prev, deltaY) == [x |-> prev.x - deltaY, y |-> prev.y]

\* faulty variant: the lower clamp is missing
ZoomByNoFloor(prev, deltaY) == Min(MaxScale, prev - deltaY)

\* faulty variant: the zoom direction is inverted
ZoomByInverted(prev, deltaY) == Min(MaxScale, Max(MinScale, prev + deltaY))

\* prev => Math.min(4, Math.max(0.25, prev - e.deltaY * zoomSpeed))
ZoomBy(prev, deltaY) == Min(MaxScale, Max(MinScale, prev - deltaY))

\* the history of the drag ends: no press yet, a leave, an event after the
\* release, or a shift+wheel that is not followed
DragBroken ==
  /\ dragClean' = FALSE
  /\ dragBase' = [x |-> 0, y |-> 0]
  /\ dragLast' = [x |-> 0, y |-> 0]
  /\ dragMoves' = 0
  /\ dragPan' = 0

\* a shift+wheel by deltaY: added to the history of the drag where followed
DragPanned(deltaY) ==
  IF trackWheel /\ dragClean /\ ev # "mouseup"
  THEN /\ dragPan' = dragPan + deltaY
       /\ UNCHANGED << dragClean, dragBase, dragLast, dragMoves >>
  ELSE DragBroken

\* an event that is neither a move nor a shift+wheel: the drag goes on, unless
\* it was released already
DragKept ==
  IF ev = "mouseup" THEN DragBroken
  ELSE UNCHANGED << dragClean, dragBase, dragLast, dragMoves, dragPan >>

\* faulty variant: the wheel is ignored while a drag is in progress
handleWheelIdleOnly(shiftKey, deltaY) ==
  /\ ev' = IF shiftKey THEN "shiftWheel" ELSE "wheel"
  /\ IF isDragging
     THEN /\ UNCHANGED << scale, offset, size, isDragging, lastPos, dpr, users, trackWheel >>
          /\ Commit(FALSE)
          /\ DragKept
     ELSE IF shiftKey
     THEN /\ offset' = PanBy(offset, deltaY)
          /\ InRange(offset')
          /\ scale' = scale
          /\ UNCHANGED << size, isDragging, lastPos, dpr, users, trackWheel >>
          /\ Commit(TRUE)
          /\ DragPanned(deltaY)
     ELSE /\ scale' = ZoomBy(scale, deltaY)
          /\ UNCHANGED << offset, size, isDragging, lastPos, dpr, users, trackWheel >>
          /\ Commit(scale' # scale)
          /\ DragKept

handleWheel(shiftKey, deltaY) ==
  /\ IF shiftKey
     THEN /\ offset' = PanBy(offset, deltaY)
          /\ InRange(offset')
          /\ scale' = scale
          /\ UNCHANGED << size, isDragging, lastPos, dpr, users, trackWheel >>
          /\ Commit(TRUE)
          /\ ev' = "shiftWheel"
          /\ DragPanned(deltaY)
     ELSE /\ scale' = ZoomBy(scale, deltaY)
          /\ UNCHANGED << offset, size, isDragging, lastPos, dpr, users, trackWheel >>
          /\ Commit(scale' # scale)
          /\ ev' = "wheel"
          /\ DragKept

handleMouseDown(p) ==
  /\ isDragging' = TRUE
  /\ lastPos' = p
  /\ UNCHANGED << scale, offset, size, dpr, users, trackWheel >>
  /\ Commit(FALSE)
  /\ ev' = "mousedown"
  /\ dragClean' = TRUE
  /\ dragBase' = [x |-> offset.x - p.x, y |-> offset.y - p.y]
  /\ dragLast' = p
  /\ dragMoves' = 0
  /\ dragPan' = 0

\* faulty variant: the drag delta is divided by scale
MoveByOverScale(prev, dx, dy) ==
  [x |-> prev.x + (dx * 1000) \div scale, y |-> prev.y + (dy * 1000) \div scale]

\* prev => ({ x: prev.x + dx, y: prev.y + dy })
MoveBy(prev, dx, dy) == [x |-> prev.x + dx, y |-> prev.y + dy]

\* faulty variant: the anchor stays at the press position
MoveAnchorKept(last, p) == last

\* lastPosRef.current = { x: e.clientX, y: e.clientY } in handleMouseMove
MoveAnchor(last, p) == p

handleMouseMove(p) ==
  /\ ev' = "mousemove"
  /\ IF ~isDragging
     THEN /\ UNCHANGED << scale, offset, size, isDragging, lastPos, dpr, users, trackWheel >>
          /\ Commit(FALSE)
          /\ DragKept
     ELSE LET dx == p.x - lastPos.x
              dy == p.y - lastPos.y
          IN /\ lastPos' = MoveAnchor(lastPos, p)
             /\ offset' = MoveBy(offset, dx, dy)
             /\ InRange(offset')
             /\ UNCHANGED << scale, size, isDragging, dpr, users, trackWheel >>
             /\ Commit(TRUE)
             /\ IF dragClean
                THEN /\ dragLast' = p
                     /\ dragMoves' = Min(2, dragMoves + 1)
                     /\ UNCHANGED << dragClean, dragBase, dragPan >>
                ELSE DragBroken

\* onMouseUp={stopDragging}
handleMouseUp ==
  /\ isDragging' = FALSE
  /\ UNCHANGED << scale, offset, size, lastPos, dpr, users, trackWheel >>
  /\ Commit(FALSE)
  /\ ev' = "mouseup"
  /\ IF dragClean /\ ev # "mouseup"
     THEN UNCHANGED << dragClean, dragBase, dragLast, dragMoves, dragPan >>
     ELSE DragBroken

\* faulty variant: leaving the canvas does not end the drag
handleMouseLeaveIgnored ==
  /\ UNCHANGED << scale, offset, size, isDragging, lastPos, dpr, users, trackWheel >>
  /\ Commit(FALSE)
  /\ ev' = "mouseleave"
  /\ DragBroken

\* onMouseLeave={stopDragging}
handleMouseLeave ==
  /\ isDragging' = FALSE
  /\ UNCHANGED << scale, offset, size, lastPos, dpr, users, trackWheel >>
  /\ Commit(FALSE)
  /\ ev' = "mouseleave"
  /\ DragBroken

\* setSize({ width: window.innerWidth, height: window.innerHeight })
ResizeTo(w, h) == [width |-> w, height |-> h]

\* faulty variant: a resize also resets the pan
handleResizeResetting(w, h) ==
  /\ size' = ResizeTo(w, h)
  /\ offset' = [x |-> 0, y |-> 0]
  /\ UNCHANGED << scale, isDragging, lastPos, dpr, users, trackWheel >>
  /\ Commit(TRUE)
  /\ ev' = "resize"
  /\ DragKept

handleResize(w, h) ==
  /\ size' = ResizeTo(w, h)
  /\ UNCHANGED << scale, offset, isDragging, lastPos, dpr, users, trackWheel >>
  /\ Commit(TRUE)
  /\ ev' = "resize"
  /\ DragKept

(* ---------- specifications ---------- *)
\* the state after the first render and its draw effect
Mounted(us) ==
  /\ users = us
  /\ scale = 1000
  /\ offset = [x |-> 0, y |-> 0]
  /\ size \in Sizes
  /\ isDragging = FALSE
  /\ lastPos = [x |-> 0, y |-> 0]
  /\ dpr \in Dprs
  /\ cursor = CursorStyle(isDragging)
  /\ frame = Draw(scale, offset, size, dpr, users)
  /\ redraws = 1
  /\ seen = {[width |-> size.width, nodes |-> frame.nodes, edges |-> frame.edges]}
  /\ ev = "mount"
  /\ dragClean = FALSE
  /\ dragBase = [x |-> 0, y |-> 0]
  /\ dragLast = [x |-> 0, y |-> 0]
  /\ dragMoves = 0
  /\ dragPan = 0

Init == Mounted(USERS) /\ trackWheel = FALSE

Next ==
  \/ \E d \in PanDeltaYs : handleWheel(TRUE, d)
  \/ \E d \in ZoomDeltaYs : handleWheel(FALSE, d)
  \/ \E p \in Points : handleMouseDown(p)
  \/ \E p \in Points : handleMouseMove(p)
  \/ handleMouseUp
  \/ handleMouseLeave
  \/ \E w \in Widths, h \in Heights : handleResize(w, h)

Spec == Init /\ [][Next]_vars

\* the layout on any entity list: the list is drawn from the bounded lists,
\* and resizes redraw it at every width
EntityLists == UNION {[1..n -> Entities] : n \in 0..MaxLen}

LayoutInit ==
  /\ \E us \in EntityLists : Mounted(us)
  /\ trackWheel = FALSE
  /\ size = [width |-> 1000, height |-> 600]

LayoutNext == \E w \in Widths, h \in Heights : handleResize(w, h)

LayoutSpec == LayoutInit /\ [][LayoutNext]_vars

\* drags with wheel events in between, on a surface that is not resized: the
\* history of a drag follows the shift+wheel events too
WheelDragInit ==
  /\ Mounted(USERS)
  /\ size = [width |-> 1000, height |-> 600]
  /\ trackWheel = TRUE

WheelDragNext ==
  \/ \E d \in PanDeltaYs : handleWheel(TRUE, d)
  \/ \E d \in ZoomDeltaYs : handleWheel(FALSE, d)
  \/ \E p \in Points : handleMouseDown(p)
  \/ \E p \in Points : handleMouseMove(p)
  \/ handleMouseUp
  \/ handleMouseLeave

WheelDragSpec == WheelDragInit /\ [][WheelDragNext]_vars

(* ---------- claims ---------- *)

\* C1: in every reachable state scale is within [0.25, 4] inclusive
\* (250..4000 thousandths).
ScaleWithinLimits == scale >= 250 /\ scale <= 4000

\* C1 witness: both limits are reached, by wheel events mixed with a drag and
\* a resize (here the lower one, while dragging, after a pan).
ScaleAtLowerLimitWhileDragging ==
  /\ scale = 250
  /\ ev = "wheel"
  /\ isDragging
  /\ offset.y = 1
  /\ size.width = 1001

\* C2: a press at p0, then moves to p1..pk (k >= 1) and a release, with no
\* shift+wheel in between: offset after the release is offset before the
\* press plus (pk - p0).  dragBase is offset before the press minus p0 and
\* dragLast is pk.
DragNetDelta ==
  (ev = "mouseup" /\ dragClean /\ dragMoves >= 1) =>
    /\ offset.x = dragBase.x + dragLast.x
    /\ offset.y = dragBase.y + dragLast.y

\* C2 witness: a drag of two moves or more, from offset (0,0) and p0 = (0,0)
\* to pk = (1,1), has been released.
DragOfTwoMovesReleased ==
  /\ ev = "mouseup"
  /\ dragClean
  /\ dragMoves = 2
  /\ dragBase = [x |-> 0, y |-> 0]
  /\ dragLast = [x |-> 1, y |-> 1]
  /\ offset = [x |-> 1, y |-> 1]

\* C3: a wheel event with shift held and deltaY = d changes offset.x by
\* exactly -d and leaves scale, offset.y, the size and the drag state (flag and
\* anchor) unchanged.
ShiftWheelPansX ==
  [][\A d \in PanDeltaYs :
       handleWheel(TRUE, d) =>
         /\ offset'.x = offset.x - d
         /\ offset'.y = offset.y
         /\ scale' = scale
         /\ size' = size
         /\ isDragging' = isDragging
         /\ lastPos' = lastPos]_vars

\* C3 witness: a shift+wheel has panned to x = 1 during a drag at scale 4.
ShiftWheelPannedWhileDragging ==
  /\ ev = "shiftWheel"
  /\ offset.x = 1
  /\ isDragging
  /\ scale = 4000

\* C4: a wheel event without shift and with deltaY = d sets scale to
\* min(4, max(0.25, scale - 0.001 * d)): inside the limits the change is
\* exactly -0.001 * d, a negative deltaY never decreases scale and a positive
\* one never increases it.
PlainWheelZooms ==
  [][\A d \in ZoomDeltaYs :
       handleWheel(FALSE, d) =>
         /\ (scale - d > 4000) => scale' = 4000
         /\ (scale - d < 250) => scale' = 250
         /\ (scale - d >= 250 /\ scale - d <= 4000) => scale' - scale = 0 - d
         /\ (d < 0) => scale' >= scale
         /\ (d > 0) => scale' <= scale]_vars

\* C4 witness: a wheel has moved scale to 1 and redrawn, which only the step
\* from 4 by deltaY = 3000 does (an exact change, inside the limits).
WheelZoomedInsideLimits ==
  /\ ev = "wheel"
  /\ redraws = 1
  /\ scale = 1000

\* the indices of the entities without a parentId (absent or empty, as
\* !u.parentId reads it)
RootlessAt == {i \in 1..Len(users) : NoParentId(users[i])}

\* C5: with exactly one rootless entity and N >= 0 entities whose parentId is
\* the root's id, a draw pass produces 1 root node, N child nodes and N edges,
\* the i-th edge running from the root's bottom-center (rootX + 80, rootY + 70)
\* to the top-center (childX + 80, childY) of the i-th child.
OneRootLayout ==
  Cardinality(RootlessAt) = 1 =>
    LET root == users[CHOOSE i \in RootlessAt : TRUE]
        N == Cardinality({j \in 1..Len(users) : users[j].parentId = root.id})
    IN /\ Len(frame.nodes) = 1 + N
       /\ Len(frame.edges) = N
       /\ frame.nodes[1].id = root.id
       /\ \A i \in 1..N :
            /\ \E j \in 1..Len(users) :
                 /\ users[j].parentId = root.id
                 /\ users[j].id = frame.nodes[i + 1].id
            /\ frame.edges[i].x1_2 = frame.nodes[1].x2 + 2 * 80
            /\ frame.edges[i].y1_2 = frame.nodes[1].y2 + 2 * 70
            /\ frame.edges[i].x2_2 = frame.nodes[i + 1].x2 + 2 * 80
            /\ frame.edges[i].y2_2 = frame.nodes[i + 1].y2

\* C5 witness: a list of four with one root, two children of it and one entity
\* that is neither has been redrawn after a resize.
OneRootTwoChildrenDrawn ==
  /\ ev = "resize"
  /\ Len(users) = 4
  /\ Cardinality(RootlessAt) = 1
  /\ Len(frame.nodes) = 3
  /\ Len(frame.edges) = 2

\* C6: for N >= 1 children and any width, the children are placed left to
\* right in input order, the centers of consecutive children are exactly 220
\* apart, and the centers are symmetric around the root's center x.
ChildrenSpacedAndSymmetric ==
  Len(frame.nodes) >= 2 =>
    LET N == Len(frame.nodes) - 1
        kidsAt == {j \in 1..Len(users) : users[j].parentId = frame.nodes[1].id}
        kth(i) == CHOOSE j \in kidsAt : Cardinality({m \in kidsAt : m <= j}) = i
        center2(i) == frame.nodes[i + 1].x2 + 2 * 80
    IN /\ N = Cardinality(kidsAt)
       /\ \A i \in 1..N : frame.nodes[i + 1].id = users[kth(i)].id
       /\ \A i \in 1..(N - 1) : center2(i + 1) - center2(i) = 2 * 220
       /\ \A i \in 1..N :
            center2(i) + center2(N + 1 - i) = 2 * (frame.nodes[1].x2 + 2 * 80)

\* C6 witness: three children with different ids in a row, drawn at the odd
\* width after a resize.
ThreeChildrenDrawnAtOddWidth ==
  /\ ev = "resize"
  /\ size.width = 1001
  /\ Len(frame.nodes) = 4
  /\ frame.nodes[2].id # frame.nodes[3].id

\* C7 as stated: at width 1000 the four-entity dataset has its root node at
\* x = 420, y = 100 and its child nodes at y = 220 with node x 280, 500, 720.
FourEntityLayoutAsStated ==
  frame.cssW = 1000 =>
    /\ Len(frame.nodes) = 4
    /\ frame.nodes[1].x2 = 2 * 420 /\ frame.nodes[1].y2 = 2 * 100
    /\ frame.nodes[2].x2 = 2 * 280 /\ frame.nodes[2].y2 = 2 * 220
    /\ frame.nodes[3].x2 = 2 * 500 /\ frame.nodes[3].y2 = 2 * 220
    /\ frame.nodes[4].x2 = 2 * 720 /\ frame.nodes[4].y2 = 2 * 220

\* C7 amended: at width 1000 the root node is at x = 420, y = 100 and the
\* child nodes, in input order, at y = 220 with node x 200, 420, 640; their
\* centers x + 80 are 280, 500, 720, under the root's center 500.
FourEntityLayout ==
  frame.cssW = 1000 =>
    /\ Len(frame.nodes) = 4
    /\ frame.nodes[1].id = "1"
    /\ frame.nodes[1].x2 = 2 * 420 /\ frame.nodes[1].y2 = 2 * 100
    /\ frame.nodes[2].id = "2"
    /\ frame.nodes[2].x2 = 2 * 200 /\ frame.nodes[2].y2 = 2 * 220
    /\ frame.nodes[3].id = "3"
    /\ frame.nodes[3].x2 = 2 * 420 /\ frame.nodes[3].y2 = 2 * 220
    /\ frame.nodes[4].id = "4"
    /\ frame.nodes[4].x2 = 2 * 640 /\ frame.nodes[4].y2 = 2 * 220
    /\ \A i \in 2..4 : frame.nodes[i].x2 + 2 * 80 = 2 * (280 + (i - 2) * 220)

\* C7 witness: the dataset has been drawn at width 1000 after a resize from
\* the other width.
FourEntitiesDrawnAt1000 ==
  /\ ev = "resize"
  /\ frame.cssW = 1000
  /\ Cardinality(seen) = 2
  /\ users = USERS

\* C8: when no entity is rootless, a draw pass produces no node and no edge,
\* completes, and leaves the viewport as it read it (scale 1, offset (0,0) and
\* the size the resize set).
NoRootDrawsNothing ==
  RootlessAt = {} =>
    /\ frame.nodes = << >>
    /\ frame.edges = << >>
    /\ redraws = 1
    /\ scale = 1000 /\ frame.k = scale
    /\ offset = [x |-> 0, y |-> 0] /\ frame.tx = offset.x /\ frame.ty = offset.y
    /\ frame.cssW = size.width /\ frame.cssH = size.height

\* C8 witness: a list of two entities or more, each with a parentId, has been
\* redrawn after a resize.
RootlessFreeListDrawn ==
  /\ ev = "resize"
  /\ Len(users) >= 2
  /\ RootlessAt = {}
  /\ \E i \in 1..Len(users) : users[i].parentId = users[i].id
  /\ frame.nodes = << >>

LayoutDependsOnWidthOnly ==
  /\ \A f \in seen, g \in seen : f.width = g.width => f = g
  /\ \E f \in seen :
       f.width = frame.cssW /\ f.nodes = frame.nodes /\ f.edges = frame.edges

\* C10 witness: every redraw so far was at one width, the first at scale 1
\* and offset (0,0), the last at scale 4, panned, at height 700 and dragging.
RedrawnZoomedPannedDragging ==
  /\ Cardinality({f.width : f \in seen}) = 1
  /\ redraws = 1
  /\ frame.k = 4000
  /\ frame.tx = 1 /\ frame.ty = 1
  /\ frame.cssH = 700
  /\ isDragging

\* C11: the controller is dragging exactly when a press has occurred with no
\* release and no pointer-leave since; a move changes offset only then; a move
\* while idle and every press, release and leave keep offset, scale and the
\* size; after a release or a leave the controller is idle until the next
\* press.
DragStateMachine ==
  [][/\ isDragging' =
          (\/ ev' = "mousedown"
           \/ isDragging /\ ev' \notin {"mouseup", "mouseleave"})
     /\ (ev' = "mousemove" /\ offset' # offset) => isDragging
     /\ (\/ ev' \in {"mousedown", "mouseup", "mouseleave"}
         \/ ev' = "mousemove" /\ ~isDragging)
          => (offset' = offset /\ scale' = scale /\ size' = size)]_vars

\* C11 witness: a move while idle, after a drag that panned to (1,1) was ended,
\* has changed nothing.
IdleMoveAfterDrag ==
  /\ ev = "mousemove"
  /\ ~isDragging
  /\ redraws = 0
  /\ lastPos = [x |-> 1, y |-> 1]
  /\ offset = [x |-> 1, y |-> 1]

\* C12: at every redraw the rectangle that clearRect clears, mapped through
\* the transform in force (CSS pixel = offset + scale * logical), is exactly
\* the visible surface [0, width] x [0, height].  (Both sides times 1000.)
ClearedRectIsVisibleSurface ==
  /\ 1000 * frame.tx + frame.k * frame.clear.x = 0
  /\ 1000 * frame.ty + frame.k * frame.clear.y = 0
  /\ frame.k * frame.clear.w = 1000 * frame.cssW
  /\ frame.k * frame.clear.h = 1000 * frame.cssH

\* C13: a wheel event without shift never changes offset, so the logical
\* origin stays on screen at offset (frame.tx, frame.ty) across any zoom;
\* every other logical point p is at offset + scale * p before and at
\* offset + scale' * p after (frame.k is the factor in force): zoom pivots at
\* the logical origin.
ZoomPivotsAtOrigin ==
  [][ev' = "wheel" =>
       /\ offset' = offset
       /\ frame.tx = offset.x /\ frame.ty = offset.y /\ frame.k = scale
       /\ frame'.tx = offset.x /\ frame'.ty = offset.y /\ frame'.k = scale']_vars

\* C13 witness: a wheel has zoomed to scale 4 and redrawn on a surface panned
\* to (1,-1).
ZoomedWhilePanned ==
  /\ ev = "wheel"
  /\ redraws = 1
  /\ scale = 4000
  /\ offset = [x |-> 1, y |-> -1]

\* the CSS-pixel position, times 2000, at which frame f shows the doubled
\* logical coordinate c2: 2000 * (t + (k / 1000) * (c2 / 2))
ScreenX(f, c2) == 2000 * f.tx + f.k * c2
ScreenY(f, c2) == 2000 * f.ty + f.k * c2

\* C14: at every scale, a move to p while dragging, (dx, dy) away from the
\* last position, shifts the on-screen position of every drawn point (node
\* corners, edge ends) by exactly (dx, dy): offset grows by (dx, dy), not by
\* (dx, dy) divided or multiplied by scale.
DragShiftsScreenByDelta ==
  [][\A p \in Points :
       (isDragging /\ handleMouseMove(p)) =>
         LET dx == p.x - lastPos.x
             dy == p.y - lastPos.y
         IN /\ offset'.x = offset.x + dx /\ offset'.y = offset.y + dy
            /\ Len(frame'.nodes) = Len(frame.nodes)
            /\ \A i \in 1..Len(frame.nodes) :
                 /\ ScreenX(frame', frame'.nodes[i].x2)
                      - ScreenX(frame, frame.nodes[i].x2) = 2000 * dx
                 /\ ScreenY(frame', frame'.nodes[i].y2)
                      - ScreenY(frame, frame.nodes[i].y2) = 2000 * dy
            /\ \A i \in 1..Len(frame.edges) :
                 /\ ScreenX(frame', frame'.edges[i].x2_2)
                      - ScreenX(frame, frame.edges[i].x2_2) = 2000 * dx
                 /\ ScreenY(frame', frame'.edges[i].y1_2)
                      - ScreenY(frame, frame.edges[i].y1_2) = 2000 * dy]_vars

\* C14 witness: at scale 0.25 a drag pressed at (0,0) with offset (0,0) has
\* moved to (1,1) and the surface was redrawn at offset (1,1).
DraggedAtQuarterScale ==
  /\ ev = "mousemove"
  /\ isDragging
  /\ redraws = 1
  /\ scale = 250
  /\ dragClean /\ dragBase = [x |-> 0, y |-> 0]
  /\ lastPos = [x |-> 1, y |-> 1]
  /\ frame.tx = 1 /\ frame.ty = 1 /\ frame.k = 250

\* the last drawn frame was drawn with the current scale, offset and size
FrameIsCurrent ==
  /\ frame.k = scale
  /\ frame.tx = offset.x /\ frame.ty = offset.y
  /\ frame.cssW = size.width /\ frame.cssH = size.height
  /\ frame.canvasW = size.width * dpr /\ frame.canvasH = size.height * dpr

ResizeChangesOnlySize ==
  [][ev' = "resize" =>
       /\ scale' = scale
       /\ offset' = offset
       /\ isDragging' = isDragging
       /\ lastPos' = lastPos
       /\ (isDragging /\ dragClean) =>
            /\ dragClean'
            /\ offset'.x = dragBase'.x + dragLast'.x
            /\ offset'.y = dragBase'.y + dragLast'.y]_vars

\* C17 witness: a resize to the other width came in the middle of a drag, at
\* scale 4, after the drag had moved the surface to (1,1).
ResizedDuringDrag ==
  /\ ev = "resize"
  /\ isDragging /\ dragClean /\ dragMoves >= 1
  /\ scale = 4000
  /\ offset = [x |-> 1, y |-> 1]
  /\ Cardinality(seen) = 2

\* C18: for any entity list, the root drawn is the first entity in input
\* order without a parentId, and the nodes drawn are exactly that root and, in
\* input order, the entities whose parentId equals its id: a further rootless
\* entity and an entity whose parentId names anything else (a grandchild, an
\* unknown id, itself) give no node and no edge.
RootAndDirectChildrenOnly ==
  IF RootlessAt = {}
  THEN frame.nodes = << >> /\ frame.edges = << >>
  ELSE LET r == CHOOSE i \in RootlessAt : \A j \in RootlessAt : i <= j
           kidsAt == {j \in 1..Len(users) : users[j].parentId = users[r].id}
           kth(i) == CHOOSE j \in kidsAt : Cardinality({m \in kidsAt : m <= j}) = i
       IN /\ Len(frame.nodes) = 1 + Cardinality(kidsAt)
          /\ Len(frame.edges) = Cardinality(kidsAt)
          /\ frame.nodes[1].id = users[r].id
          /\ \A i \in 1..Cardinality(kidsAt) :
               frame.nodes[i + 1].id = users[kth(i)].id

\* C18 witness: a list of four with two rootless entities of different ids,
\* an entity that is its own parent and one child of the first rootless
\* entity has been drawn as two nodes and one edge.
TwoRootsDrawnAsOne ==
  /\ ev = "resize"
  /\ Len(users) = 4
  /\ Cardinality(RootlessAt) = 2
  /\ \E i \in RootlessAt, j \in RootlessAt : users[i].id # users[j].id
  /\ \E i \in 1..4 : users[i].parentId = users[i].id
  /\ Len(frame.nodes) = 2
  /\ Len(frame.edges) = 1

\* C19: between events the cursor style of the canvas is "grabbing" if and
\* only if the controller is dragging, and "grab" otherwise.
CursorShowsDragState ==
  /\ cursor \in {"grab", "grabbing"}
  /\ (cursor = "grabbing") <=> isDragging

\* C16: a wheel event never changes the drag state or the drag anchor and
\* has the same effect on scale and offset whether the controller is idle or
\* dragging; so a drag from p0 to pk with shift+wheel events d1..dm in between,
\* in any order, ends at the initial offset + (pk - p0) + (-(d1 + ... + dm), 0).
\* dragBase is the initial offset minus p0, dragLast is pk and dragPan is
\* d1 + ... + dm.
WheelIndependentOfDrag ==
  [][/\ \A d \in PanDeltaYs :
          handleWheel(TRUE, d) =>
            /\ offset' = [x |-> offset.x - d, y |-> offset.y]
            /\ scale' = scale
            /\ isDragging' = isDragging /\ lastPos' = lastPos
     /\ \A d \in ZoomDeltaYs :
          handleWheel(FALSE, d) =>
            /\ offset' = offset
            /\ scale' = IF scale - d > 4000 THEN 4000
                        ELSE IF scale - d < 250 THEN 250 ELSE scale - d
            /\ isDragging' = isDragging /\ lastPos' = lastPos
     /\ (ev' = "mouseup" /\ dragClean' /\ dragMoves' >= 1) =>
          /\ offset'.x = dragBase'.x + dragLast'.x - dragPan'
          /\ offset'.y = dragBase'.y + dragLast'.y]_vars

\* C16 witness: a drag of two moves or more with shift+wheel events of sum 2
\* (two events at least) in between has been released, at scale 4.
DragWithWheelsReleased ==
  /\ ev = "mouseup"
  /\ dragClean
  /\ dragMoves = 2
  /\ dragPan = 2
  /\ dragLast # [x |-> 0, y |-> 0]
  /\ scale = 4000

====
